---------------------------- MODULE Spec2Model ----------------------------
(***************************************************************************)
(* The renderer engine of webgpu-bg: createBackground (the engine of       *)
(* webgpuBackground.ts in its descriptor-driven revision), its surface     *)
(* configurator, frame scheduler and controller, and the perlinNoise1      *)
(* renderer descriptor.                                                    *)
(*                                                                         *)
(* Numbers.  A JavaScript number x is represented by the integer x * Unit  *)
(* (binary fixed point with 8 fractional bits), so 1.5 is 384 and the      *)
(* pixel count 800 is 800 * Unit.  The clock advances in steps of 125 ms,  *)
(* which keeps (now - startTime) / 1000 exact in this representation.      *)
(* A store into a Float32Array rounds to 24 significant bits (ToFloat32).  *)
(***************************************************************************)
EXTENDS Integers, Sequences, FiniteSets, TLC

Unit == 2^8

Num(i) == i * Unit

Max(a, b) == IF a >= b THEN a ELSE b

Min(a, b) == IF a <= b THEN a ELSE b

\* Math.floor on a nonnegative number.
Floor(x) == (x \div Unit) * Unit

\* a * b, exact whenever one factor is a whole number.
Mul(a, b) == (a * b) \div Unit

\* a / b, exact for the clock steps of the model.
Div(a, b) == (a * Unit) \div b

RECURSIVE BitLen(_)
BitLen(n) == IF n = 0 THEN 0 ELSE 1 + BitLen(n \div 2)

\* The value a Float32Array element holds after `buf[i] = x`: x rounded to a
\* 24-bit significand, ties to even.  Scaling by Unit (a power of two) does not
\* change the significand, so the rounding acts on the representing integer.
ToFloat32(x) ==
    LET a  == IF x < 0 THEN -x ELSE x
        sh == BitLen(a) - 24
    IN  IF sh <= 0 THEN x
        ELSE LET q    == a \div (2^sh)
                 r    == a % (2^sh)
                 half == 2^(sh - 1)
                 up   == r > half \/ (r = half /\ q % 2 = 1)
                 m    == (IF up THEN q + 1 ELSE q) * (2^sh)
             IN  IF x < 0 THEN -m ELSE m

(***************************************************************************)
(* The renderer descriptor perlinNoise1.                                   *)
(***************************************************************************)

\* The keys of PerlinNoise1Params in declaration order.
ParamKeys ==
    << "baseR", "baseG", "baseB", "colAr", "colAg", "colAb",
       "colBr", "colBg", "colBb", "speed", "_pad0", "_pad1" >>

KeySet == { ParamKeys[i] : i \in 1..Len(ParamKeys) }

\* perlinNoise1.defaultParams, each literal rounded to the nearest 1/256.
defaultParams ==
    [ baseR |-> 15,  baseG |-> 20, baseB |-> 31,
      colAr |-> 26,  colAg |-> 90, colAb |-> 218,
      colBr |-> 218, colBg |-> 64, colBb |-> 141,
      speed |-> 38,  _pad0 |-> 0,  _pad1 |-> 0 ]

uniformFloats == 16

BufIndex == 0..(uniformFloats - 1)

\* new Float32Array(descriptor.uniformFloats): zero-filled.
NewFloat32Array == [ i \in BufIndex |-> 0 ]

\* Mutant: speed and colBb written to each other's index.
writeUniformsSwapped(buf, time, w, h, d, p) ==
    [ buf EXCEPT
        ![0]  = ToFloat32(time),    ![1]  = ToFloat32(w),
        ![2]  = ToFloat32(h),       ![3]  = ToFloat32(d),
        ![4]  = ToFloat32(p.baseR), ![5]  = ToFloat32(p.baseG),
        ![6]  = ToFloat32(p.baseB), ![7]  = ToFloat32(p.colAr),
        ![8]  = ToFloat32(p.colAg), ![9]  = ToFloat32(p.colAb),
        ![10] = ToFloat32(p.colBr), ![11] = ToFloat32(p.colBg),
        ![12] = ToFloat32(p.speed), ![13] = ToFloat32(p.colBb) ]

\* perlinNoise1.writeUniforms: the buffer after the call.  Every assignment
\* buf[i] = x stores x as a 32-bit float.
writeUniforms(buf, time, w, h, d, p) ==
    [ buf EXCEPT
        ![0]  = ToFloat32(time),    ![1]  = ToFloat32(w),
        ![2]  = ToFloat32(h),       ![3]  = ToFloat32(d),
        ![4]  = ToFloat32(p.baseR), ![5]  = ToFloat32(p.baseG),
        ![6]  = ToFloat32(p.baseB), ![7]  = ToFloat32(p.colAr),
        ![8]  = ToFloat32(p.colAg), ![9]  = ToFloat32(p.colAb),
        ![10] = ToFloat32(p.colBr), ![11] = ToFloat32(p.colBg),
        ![12] = ToFloat32(p.colBb), ![13] = ToFloat32(p.speed) ]

\* Mutant: the spread in the wrong order, the defaults win.
SpreadDefaultsLast(defaults, overrides) ==
    [ k \in (DOMAIN defaults) \cup (DOMAIN overrides) |->
        IF k \in DOMAIN defaults THEN defaults[k] ELSE overrides[k] ]

\* { ...descriptor.defaultParams, ...params }: object spread, later keys win.
Spread(defaults, overrides) ==
    [ k \in (DOMAIN defaults) \cup (DOMAIN overrides) |->
        IF k \in DOMAIN overrides THEN overrides[k] ELSE defaults[k] ]

(***************************************************************************)
(* The surface configurator.                                               *)
(***************************************************************************)

\* opts.maxDpr ?? 3; an option that is not given is the empty sequence.
DefaultMaxDpr == 3

MaxDprOf(opt) == IF opt = << >> THEN Num(DefaultMaxDpr) ELSE opt[1]

\* window.devicePixelRatio || 1
HintOr1(hint) == IF hint = 0 THEN Num(1) ELSE hint

\* Mutant: the lower clamp is missing.
ClampDprAbove(maxD, hint) == Min(maxD, HintOr1(hint))

\* dpr = Math.max(1, Math.min(maxDpr, window.devicePixelRatio || 1))
ClampDpr(maxD, hint) == Max(Num(1), Min(maxD, HintOr1(hint)))

\* Mutant: the layout size is not clamped before it is scaled.
CssSizeUnclamped(client) == Floor(client)

\* cssW = Math.max(1, Math.floor(canvas.clientWidth))
CssSize(client) == Max(Num(1), Floor(client))

\* width = Math.max(1, Math.floor(cssW * dpr))
PixelSize(client, d) == Max(Num(1), Floor(Mul(CssSize(client), d)))

(***************************************************************************)
(* The engine and its environment.                                         *)
(***************************************************************************)

VARIABLES
    \* --- the host environment
    documentHidden,      \* document.hidden
    devicePixelRatio,    \* window.devicePixelRatio
    clientWidth,         \* canvas.clientWidth
    clientHeight,        \* canvas.clientHeight
    now,                 \* performance.now(), in ms
    rafPending,          \* handles of the frame callbacks the browser holds
    nextRafId,           \* the handle the next requestAnimationFrame returns
    roPending,           \* a ResizeObserver notification is queued
    \* --- createBackground's closure
    phase,               \* how far createBackground has run
    params,              \* createBackground's params argument
    error,               \* the error createBackground threw
    controller,          \* the member names of the returned controller
    respectReducedMotion,
    prefersReducedMotion,
    shouldAnimate,
    maxDpr,
    mergedParams,
    pausedByVisibility,
    visListeners,        \* registered "visibilitychange" listeners
    roObserving,         \* ro observes document.documentElement
    width, height, dpr,
    canvasWidth, canvasHeight,   \* canvas.width, canvas.height
    rafId,
    startTime,
    uniformData,
    bufferDestroys,      \* calls of uniformBuffer.destroy()
    \* --- what the last step did, and the history the claims speak of
    ev,                  \* the last operation and its calls
    lastStartCall,       \* performance.now() at the latest start() call
    lastReset,           \* ... at the latest start() call that did not return early
    lastTs,              \* timestamp of the latest frame since the clock was reset
    \* --- the objects that hold parameters
    heap,                \* the parameter objects by reference: ref -> record
    engines              \* per created engine, the reference of its live params

env == << documentHidden, devicePixelRatio, clientWidth, clientHeight, now,
          rafPending, nextRafId, roPending >>

created == << phase, params, error, controller, respectReducedMotion,
             prefersReducedMotion, shouldAnimate, maxDpr, mergedParams >>

geometry == << width, height, dpr, canvasWidth, canvasHeight >>

objects == << heap, engines >>

vars == << documentHidden, devicePixelRatio, clientWidth, clientHeight, now,
           rafPending, nextRafId, roPending, phase, params, error, controller,
           respectReducedMotion, prefersReducedMotion, shouldAnimate, maxDpr,
           mergedParams, pausedByVisibility, visListeners,
           roObserving, width, height, dpr, canvasWidth, canvasHeight, rafId,
           startTime, uniformData, bufferDestroys, ev, lastStartCall, lastReset,
           lastTs, heap, engines >>

\* The reference of perlinNoise1.defaultParams, the one parameter object that
\* exists before any engine is created.
DescriptorRef == 1

NewHeap == [ r \in { DescriptorRef } |-> defaultParams ]

\* let rafId: number | null = null.  requestAnimationFrame handles are positive.
null == 0

None == -1

(***************************************************************************)
(* Bounds of the model.                                                    *)
(***************************************************************************)

\* The clock is read at 0, 125 ms, ..., MaxClockSteps * 125 ms.
MaxClockSteps == 1

\* requestAnimationFrame hands out the handles 1..MaxRaf.
MaxRaf == 3

\* destroy() is called at most MaxDestroy times.
MaxDestroy == 2

ClockStep == Num(125)

\* What a step that calls nothing leaves in ev.  op is "start", "tick", "stop" or
\* "destroy" for the controller's methods and the frame callback, and "host" for
\* createBackground's own steps and the host's events; draws are the timestamps
\* drawFrame was called with, submits the calls of device.queue.submit, cfgs the
\* calls of configure, sched the calls of requestAnimationFrame; reset says that
\* startTime was assigned, threw that the step ended in an exception, and again
\* that the step is a start() call that directly follows a start() call;
\* missing names what the host failed to provide to createBackground in the
\* step ("gpu", "adapter", "context"), "none" otherwise.
Quiet(name) ==
    [ op |-> name, draws |-> << >>, submits |-> 0, cfgs |-> 0, sched |-> 0,
      reset |-> FALSE, threw |-> FALSE, again |-> FALSE, missing |-> "none" ]

(***************************************************************************)
(* createBackground's inner functions.                                     *)
(***************************************************************************)

\* Mutant: the canvas keeps its size.
configureWithoutCanvas ==
    /\ dpr' = ClampDpr(maxDpr, devicePixelRatio)
    /\ width' = PixelSize(clientWidth, dpr')
    /\ height' = PixelSize(clientHeight, dpr')
    /\ UNCHANGED << canvasWidth, canvasHeight >>

\* configure(): lines 90-101.
configure ==
    /\ dpr' = ClampDpr(maxDpr, devicePixelRatio)
    /\ width' = PixelSize(clientWidth, dpr')
    /\ height' = PixelSize(clientHeight, dpr')
    /\ canvasWidth' = width'
    /\ canvasHeight' = height'

\* drawFrame(timeSeconds) with the geometry (w, h, d) current at the call: the
\* uniforms are written first; getCurrentTexture() or a later call may throw
\* (fault), and then nothing is submitted.
drawFrame(timeSeconds, w, h, d) ==
    uniformData' = writeUniforms(uniformData, timeSeconds, w, h, d, mergedParams)

\* requestAnimationFrame(tick): the browser keeps the callback under a new handle.
requestAnimationFrame(pending) ==
    /\ nextRafId <= MaxRaf
    /\ rafId' = nextRafId
    /\ rafPending' = pending \cup {nextRafId}
    /\ nextRafId' = nextRafId + 1

\* Mutant: the clock origin is forgotten.
ElapsedSinceLoad == Div(now, Num(1000))

\* (performance.now() - startTime) / 1000
Elapsed == Div(now - startTime, Num(1000))

\* Mutant: tick renders whatever the visibility.
tickNeverSkips == FALSE

\* if (!pausedByVisibility) drawFrame(...): whether tick skips the render.
tickSkips == pausedByVisibility

\* Mutant: tick schedules its successor before it renders.
tickSchedulesFirst == TRUE

\* rafId = requestAnimationFrame(tick) is the last statement of tick (line
\* 134): whether it has run when the render throws.
tickSchedulesBeforeRender == FALSE

\* tick: a pending frame callback fires.
tick ==
    \E h \in rafPending :
        /\ nextRafId <= MaxRaf
        /\ IF tickSkips
             THEN /\ requestAnimationFrame(rafPending \ {h})
                  /\ ev' = [ Quiet("tick") EXCEPT !.sched = 1 ]
                  /\ UNCHANGED << uniformData, lastTs >>
             ELSE \E fault \in BOOLEAN :
                  /\ drawFrame(Elapsed, width, height, dpr)
                  /\ IF fault
                       THEN /\ IF tickSchedulesBeforeRender
                                 THEN requestAnimationFrame(rafPending \ {h})
                                 ELSE /\ rafPending' = rafPending \ {h}
                                      /\ UNCHANGED << rafId, nextRafId >>
                            /\ ev' = [ Quiet("tick") EXCEPT
                                         !.draws = << Elapsed >>, !.threw = TRUE,
                                         !.sched =
                                            IF tickSchedulesBeforeRender THEN 1 ELSE 0 ]
                            /\ UNCHANGED lastTs
                       ELSE /\ requestAnimationFrame(rafPending \ {h})
                            /\ ev' = [ Quiet("tick") EXCEPT
                                         !.draws = << Elapsed >>, !.submits = 1,
                                         !.sched = 1 ]
                            /\ lastTs' = Elapsed
        /\ UNCHANGED << documentHidden, devicePixelRatio, clientWidth, clientHeight,
                        now, roPending, created, pausedByVisibility, visListeners,
                        roObserving, geometry, startTime, bufferDestroys,
                        lastStartCall, lastReset >>
        /\ UNCHANGED objects

\* Mutant: start() without its guard.
startNeverReturnsEarly == FALSE

\* if (rafId != null) return;
startReturnsEarly == rafId # null

\* Mutant: start() schedules the loop in either mode.
startAlwaysSchedules == TRUE

\* if (shouldAnimate) ... else ...
startSchedules == shouldAnimate

\* start(): lines 137-146.
start ==
    /\ "start" \in controller
    /\ lastStartCall' = now
    /\ IF startReturnsEarly
         THEN /\ ev' = [ Quiet("start") EXCEPT !.again = (ev.op = "start") ]
              /\ UNCHANGED << rafPending, nextRafId, geometry, rafId, startTime,
                              uniformData, lastReset, lastTs >>
         ELSE /\ startTime' = now
              /\ lastReset' = now
              /\ configure
              /\ IF startSchedules
                   THEN /\ requestAnimationFrame(rafPending)
                        /\ ev' = [ Quiet("start") EXCEPT
                                     !.reset = TRUE, !.cfgs = 1, !.sched = 1,
                                     !.again = (ev.op = "start") ]
                        /\ lastTs' = None
                        /\ UNCHANGED uniformData
                   ELSE \E fault \in BOOLEAN :
                        /\ drawFrame(0, width', height', dpr')
                        /\ ev' = [ Quiet("start") EXCEPT
                                     !.reset = TRUE, !.cfgs = 1, !.draws = << 0 >>,
                                     !.submits = IF fault THEN 0 ELSE 1,
                                     !.threw = fault,
                                     !.again = (ev.op = "start") ]
                        /\ lastTs' = IF fault THEN None ELSE 0
                        /\ UNCHANGED << rafPending, nextRafId, rafId >>
    /\ UNCHANGED << documentHidden, devicePixelRatio, clientWidth, clientHeight,
                    now, roPending, created, pausedByVisibility, visListeners,
                    roObserving, bufferDestroys >>
    /\ UNCHANGED objects

\* Mutant: stop() forgets the handle without cancelling the callback.
cancelNothing(handle) == rafPending

\* cancelAnimationFrame(handle): the callbacks the browser still holds.
cancelAnimationFrame(handle) == rafPending \ {handle}

\* The body of stop(): lines 148-152.
stopBody ==
    IF rafId = null
      THEN UNCHANGED << rafPending, rafId >>
      ELSE /\ rafPending' = cancelAnimationFrame(rafId)
           /\ rafId' = null

stop ==
    /\ "stop" \in controller
    /\ stopBody
    /\ ev' = Quiet("stop")
    /\ UNCHANGED << documentHidden, devicePixelRatio, clientWidth, clientHeight,
                    now, nextRafId, roPending, created, pausedByVisibility,
                    visListeners, roObserving, geometry, startTime, uniformData,
                    bufferDestroys, lastStartCall, lastReset, lastTs >>
    /\ UNCHANGED objects

\* Mutant: ro goes on observing.
disconnectSkipped == roObserving

\* ro.disconnect(): whether ro observes anything afterwards.
disconnect == FALSE

\* destroy(): lines 154-159.
destroy ==
    /\ "destroy" \in controller
    /\ bufferDestroys < MaxDestroy
    /\ stopBody
    /\ roObserving' = disconnect
    /\ roPending' = FALSE
    /\ visListeners' = IF visListeners > 0 THEN visListeners - 1 ELSE 0
    /\ bufferDestroys' = bufferDestroys + 1
    /\ ev' = Quiet("destroy")
    /\ UNCHANGED << documentHidden, devicePixelRatio, clientWidth, clientHeight,
                    now, nextRafId, created, pausedByVisibility, geometry,
                    startTime, uniformData, lastStartCall, lastReset, lastTs >>
    /\ UNCHANGED objects

\* The members of the object createBackground returns: line 163.
Controller == { "start", "stop", "destroy" }

\* Mutant: the adapter is used without the check.
adapterCheckSkipped(adapter) == FALSE

\* if (!adapter) throw new Error("No WebGPU adapter available.")
adapterMissing(adapter) == ~adapter

\* Mutant: pausedByVisibility starts as false.
initialPauseFalse == FALSE

\* let pausedByVisibility = document.hidden
initialPause == documentHidden

\* createBackground up to its first await: lines 21-44.
createBackground(Overrides, MaxDprOpts, Motions) ==
    /\ phase = "idle"
    /\ \E hasGpu \in BOOLEAN, overrides \in Overrides, opt \in MaxDprOpts,
          motion \in Motions :
          /\ IF ~hasGpu
               THEN /\ phase' = "failed"
                    /\ error' = "WebGPU not supported"
                    /\ UNCHANGED << params, mergedParams, respectReducedMotion,
                                    prefersReducedMotion, shouldAnimate, maxDpr,
                                    pausedByVisibility, visListeners >>
               ELSE /\ phase' = "awaitAdapter"
                    /\ params' = overrides
                    /\ mergedParams' = Spread(defaultParams, overrides)
                    /\ maxDpr' = MaxDprOf(opt)
                    /\ respectReducedMotion' = motion[1]
                    /\ prefersReducedMotion' = motion[2]
                    /\ shouldAnimate' = (~motion[1] \/ ~motion[2])
                    /\ pausedByVisibility' = initialPause
                    /\ visListeners' = visListeners + 1
                    /\ UNCHANGED error
          /\ ev' = [ Quiet("host") EXCEPT
                       !.missing = IF hasGpu THEN "none" ELSE "gpu" ]
    /\ UNCHANGED << env, controller, roObserving, geometry, rafId, startTime,
                    uniformData, bufferDestroys, lastStartCall, lastReset, lastTs >>
    /\ UNCHANGED objects

\* navigator.gpu.requestAdapter settles: lines 44-47.
adapterSettled ==
    /\ phase = "awaitAdapter"
    /\ \E adapter \in BOOLEAN :
          /\ IF adapterMissing(adapter)
               THEN phase' = "failed" /\ error' = "No WebGPU adapter"
               ELSE phase' = "awaitDevice" /\ UNCHANGED error
          /\ ev' = [ Quiet("host") EXCEPT
                       !.missing = IF adapter THEN "none" ELSE "adapter" ]
    /\ UNCHANGED << env, params, controller, respectReducedMotion,
                    prefersReducedMotion, shouldAnimate, maxDpr, mergedParams,
                    pausedByVisibility, visListeners, roObserving, geometry, rafId,
                    startTime, uniformData, bufferDestroys, lastStartCall, lastReset, lastTs >>
    /\ UNCHANGED objects

\* adapter.requestDevice settles and createBackground runs to its end:
\* lines 47-163.
deviceSettled ==
    /\ phase = "awaitDevice"
    /\ \E context \in BOOLEAN :
          IF ~context
            THEN /\ phase' = "failed"
                 /\ error' = "Could not get WebGPU canvas context"
                 /\ ev' = [ Quiet("host") EXCEPT !.missing = "context" ]
                 /\ UNCHANGED << roPending, controller, roObserving, geometry,
                                 rafId, startTime, uniformData >>
            ELSE /\ phase' = "ready"
                 /\ uniformData' = NewFloat32Array
                 /\ roObserving' = TRUE
                 /\ roPending' = TRUE
                 /\ rafId' = null
                 /\ startTime' = now
                 /\ configure
                 /\ controller' = Controller
                 /\ ev' = [ Quiet("host") EXCEPT !.cfgs = 1 ]
                 /\ UNCHANGED error
    /\ UNCHANGED << documentHidden, devicePixelRatio, clientWidth, clientHeight,
                    now, rafPending, nextRafId, params, respectReducedMotion,
                    prefersReducedMotion, shouldAnimate, maxDpr, mergedParams,
                    pausedByVisibility, visListeners, bufferDestroys,
                    lastStartCall, lastReset, lastTs >>
    /\ UNCHANGED objects

(***************************************************************************)
(* The host: the page's script, events and the clock.                      *)
(***************************************************************************)

\* buildPane(bg.params, ...) of main.ts and a later edit in the pane: the pane
\* binds to the object the controller exposes as params.  A controller without
\* that member gives undefined, and Object.keys(undefined) throws in buildPane.
buildPane(Keys, Values) ==
    /\ phase = "ready"
    /\ IF "params" \in controller
         THEN /\ \E k \in Keys, v \in Values :
                    mergedParams' = [ mergedParams EXCEPT ![k] = v ]
              /\ ev' = Quiet("pane")
         ELSE /\ ev' = [ Quiet("pane") EXCEPT !.threw = TRUE ]
              /\ UNCHANGED mergedParams
    /\ UNCHANGED << env, phase, params, error, controller, respectReducedMotion,
                    prefersReducedMotion, shouldAnimate, maxDpr, pausedByVisibility,
                    visListeners, roObserving, geometry, rafId, startTime,
                    uniformData, bufferDestroys, lastStartCall, lastReset, lastTs >>
    /\ UNCHANGED objects

\* document.hidden changes and "visibilitychange" is dispatched: onVisibility
\* (line 40) runs if it is registered.
onVisibility ==
    /\ documentHidden' = ~documentHidden
    /\ pausedByVisibility' =
          IF visListeners > 0 THEN documentHidden' ELSE pausedByVisibility
    /\ ev' = Quiet("host")
    /\ UNCHANGED << devicePixelRatio, clientWidth, clientHeight, now, rafPending,
                    nextRafId, roPending, created, visListeners, roObserving,
                    geometry, rafId, startTime, uniformData, bufferDestroys,
                    lastStartCall, lastReset, lastTs >>
    /\ UNCHANGED objects

\* The canvas's layout size or the device pixel ratio changes.  Only a change of
\* the document root's size (rootResized) queues a notification for ro, which
\* observes document.documentElement: lines 124-125.
layoutChange(Layouts) ==
    /\ \E l \in Layouts, rootResized \in BOOLEAN :
          /\ l # << clientWidth, clientHeight, devicePixelRatio >>
          /\ clientWidth' = l[1]
          /\ clientHeight' = l[2]
          /\ devicePixelRatio' = l[3]
          /\ roPending' = (roPending \/ (rootResized /\ roObserving))
    /\ ev' = Quiet("host")
    /\ UNCHANGED << documentHidden, now, rafPending, nextRafId, created,
                    pausedByVisibility, visListeners, roObserving, geometry, rafId,
                    startTime, uniformData, bufferDestroys, lastStartCall, lastReset, lastTs >>
    /\ UNCHANGED objects

\* The ResizeObserver callback: () => configure(), line 124.
resizeObserved ==
    /\ roPending
    /\ roObserving
    /\ roPending' = FALSE
    /\ configure
    /\ ev' = [ Quiet("host") EXCEPT !.cfgs = 1 ]
    /\ UNCHANGED << documentHidden, devicePixelRatio, clientWidth, clientHeight,
                    now, rafPending, nextRafId, created, pausedByVisibility,
                    visListeners, roObserving, rafId, startTime, uniformData,
                    bufferDestroys, lastStartCall, lastReset, lastTs >>
    /\ UNCHANGED objects

\* performance.now() moves on.
clockAdvance ==
    /\ now < MaxClockSteps * ClockStep
    /\ now' = now + ClockStep
    /\ ev' = Quiet("host")
    /\ UNCHANGED << documentHidden, devicePixelRatio, clientWidth, clientHeight,
                    rafPending, nextRafId, roPending, created, pausedByVisibility,
                    visListeners, roObserving, geometry, rafId, startTime,
                    uniformData, bufferDestroys, lastStartCall, lastReset, lastTs >>
    /\ UNCHANGED objects

(***************************************************************************)
(* The engine over its lifetime.                                           *)
(***************************************************************************)

\* The params arguments, the maxDpr options, the pairs (opts.respectReducedMotion
\* ?? true, prefersReducedMotion) and the layouts (clientWidth, clientHeight,
\* devicePixelRatio) of the lifetime model.
NoParams == [ k \in {} |-> 0 ]

LifeOverrides == { [ speed |-> 77 ] }

LifeMaxDprOpts == { << >> }

LifeMotions == { << TRUE, TRUE >>, << TRUE, FALSE >>, << FALSE, TRUE >> }

LifeLayouts ==
    { << Num(3), Num(3), Num(1) >>, << 0, Num(2), Num(1) >>, << Num(3), Num(3), 640 >> }

Init ==
    /\ documentHidden = FALSE
    /\ devicePixelRatio = Num(1)
    /\ clientWidth = Num(3)
    /\ clientHeight = Num(3)
    /\ now = 0
    /\ rafPending = {}
    /\ nextRafId = 1
    /\ roPending = FALSE
    /\ phase = "idle"
    /\ params = NoParams
    /\ error = "none"
    /\ controller = {}
    /\ respectReducedMotion = TRUE
    /\ prefersReducedMotion = FALSE
    /\ shouldAnimate = TRUE
    /\ maxDpr = Num(DefaultMaxDpr)
    /\ mergedParams = defaultParams
    /\ pausedByVisibility = FALSE
    /\ visListeners = 0
    /\ roObserving = FALSE
    /\ width = Num(1)
    /\ height = Num(1)
    /\ dpr = Num(1)
    /\ canvasWidth = Num(300)
    /\ canvasHeight = Num(150)
    /\ rafId = null
    /\ startTime = 0
    /\ uniformData = NewFloat32Array
    /\ bufferDestroys = 0
    /\ ev = Quiet("init")
    /\ lastStartCall = None
    /\ lastReset = None
    /\ lastTs = None
    /\ heap = NewHeap
    /\ engines = << >>

Create == createBackground(LifeOverrides, LifeMaxDprOpts, LifeMotions)

LayoutChange == layoutChange(LifeLayouts)

BuildPane == buildPane({ "speed" }, { 38, 77 })

Next ==
    \/ Create
    \/ BuildPane
    \/ adapterSettled
    \/ deviceSettled
    \/ start
    \/ tick
    \/ stop
    \/ destroy
    \/ onVisibility
    \/ LayoutChange
    \/ resizeObserved
    \/ clockAdvance

Spec == Init /\ [][Next]_vars

(***************************************************************************)
(* The frame scheduler's properties.                                       *)
(***************************************************************************)

\* C1: before destroy(), at most one frame callback is pending at any time;
\* start() schedules a callback only when none is pending, and a fired callback
\* schedules one successor (none when its render threw).
C1_AtMostOnePending ==
    /\ [](bufferDestroys = 0 => Cardinality(rafPending) <= 1)
    /\ [][ bufferDestroys' = 0 =>
             /\ (ev'.op = "start" /\ ev'.sched > 0) =>
                   (rafPending = {} /\ Cardinality(rafPending') = 1)
             /\ (ev'.op = "tick") =>
                   /\ Cardinality(rafPending' \ rafPending) = ev'.sched
                   /\ ev'.sched = (IF ev'.threw THEN 0 ELSE 1) ]_vars

\* A frame callback has fired and its successor is the one pending callback.
C1_Witness ==
    /\ bufferDestroys = 0
    /\ ev.op = "tick"
    /\ ev.sched = 1
    /\ rafPending = {rafId}

\* C2 as stated: a start() call that directly follows a start() call does
\* nothing that can be observed, in either mode.
C2_SecondStartDoesNothing ==
    (ev.op = "start" /\ ev.again) =>
        (ev.draws = << >> /\ ev.cfgs = 0 /\ ev.sched = 0 /\ ~ev.reset)

\* C2 amended: a start() call that directly follows a start() call does nothing
\* in animation-enabled mode; in reduced-motion mode it resets the clock
\* origin, runs configure() and draws one more frame at timestamp 0, and
\* schedules no callback.
C2_SecondStartByMode ==
    (ev.op = "start" /\ ev.again) =>
        IF shouldAnimate
          THEN ev.draws = << >> /\ ev.cfgs = 0 /\ ev.sched = 0 /\ ~ev.reset
          ELSE ev.draws = << 0 >> /\ ev.cfgs = 1 /\ ev.sched = 0 /\ ev.reset

\* The second of two start() calls in a row, in animation-enabled mode, with the
\* loop of the first still pending.
C2_Witness ==
    /\ ev.op = "start"
    /\ ev.again
    /\ shouldAnimate
    /\ rafPending # {}

ReducedMotion == phase = "ready" /\ respectReducedMotion /\ prefersReducedMotion

\* C3: in reduced-motion mode a start() call draws exactly one frame, at
\* timestamp 0, and schedules nothing; no other step draws, and no frame
\* callback is ever pending.  (The frame is submitted unless the draw threw.)
C3_ReducedMotionOneFramePerStart ==
    ReducedMotion =>
        /\ rafPending = {}
        /\ rafId = null
        /\ ev.sched = 0
        /\ (ev.op = "start" =>
              /\ ev.draws = << 0 >>
              /\ ev.submits = (IF ev.threw THEN 0 ELSE 1))
        /\ (ev.op # "start" => (ev.draws = << >> /\ ev.submits = 0))

\* start() has rendered its single frame in reduced-motion mode while the
\* document is hidden and a resize is waiting to be delivered.
C3_Witness ==
    /\ ReducedMotion
    /\ ev.op = "start"
    /\ ev.submits = 1
    /\ documentHidden
    /\ roPending

\* C4: in animation-enabled mode, before destroy(), a frame callback that fires
\* while the document is hidden draws and submits nothing and reschedules
\* itself, so one callback stays pending; one that fires while the document is
\* visible draws (and, unless the draw threw, submits and reschedules); stop()
\* leaves no callback pending.
C4_HiddenTicksSkipAndReschedule ==
    (shouldAnimate /\ bufferDestroys = 0) =>
        /\ (ev.op = "tick" /\ documentHidden) =>
              /\ ev.draws = << >>
              /\ ev.submits = 0
              /\ ev.sched = 1
              /\ rafPending = {rafId}
        /\ (ev.op = "tick" /\ ~documentHidden) =>
              /\ Len(ev.draws) = 1
              /\ ~ev.threw => (ev.submits = 1 /\ ev.sched = 1 /\ rafPending = {rafId})
        /\ (ev.op = "stop") => rafPending = {}

\* A frame callback has fired while the document was hidden, after a frame had
\* been rendered since the loop started.
C4_Witness ==
    /\ shouldAnimate
    /\ bufferDestroys = 0
    /\ ev.op = "tick"
    /\ documentHidden
    /\ ev.sched = 1
    /\ lastTs # None

\* C5 as stated: the timestamp of every rendered frame is the time elapsed
\* since the most recent start() call.
C5_ElapsedSinceLatestStartCall ==
    (ev.submits = 1) => ev.draws = << Div(now - lastStartCall, Num(1000)) >>

\* C5 amended: the timestamp of every rendered frame is the time elapsed since
\* the most recent start() call that did not return early (the one that reset
\* the clock origin); that call restarts the timestamps, and until the next
\* such call the timestamps of successive frames never decrease.
C5_ElapsedSinceLatestReset ==
    /\ [](ev.submits = 1 =>
            /\ lastReset # None
            /\ ev.draws = << Div(now - lastReset, Num(1000)) >>
            /\ lastTs = ev.draws[1])
    /\ [][ /\ (ev'.op = "start" /\ ev'.reset /\ ev'.submits = 0) => lastTs' = None
           /\ (ev'.op = "tick" /\ ev'.submits = 1) => lastTs <= lastTs' ]_vars

\* A frame rendered with a positive timestamp after a start() call that
\* returned early at a later time than the call that reset the clock.
C5_Witness ==
    /\ ev.op = "tick"
    /\ ev.submits = 1
    /\ ev.draws[1] > 0
    /\ lastStartCall > lastReset

(***************************************************************************)
(* The surface configurator over wide inputs: the engine is created with   *)
(* any of the maxDpr options below, the layout changes among all the       *)
(* layouts below, and configure() runs from createBackground and from the  *)
(* ResizeObserver callback.                                                *)
(***************************************************************************)

\* canvas.clientWidth and canvas.clientHeight are whole numbers 0..GeomMaxSize.
GeomMaxSize == 2

GeomSizes == { Num(i) : i \in 0..GeomMaxSize }

\* window.devicePixelRatio: 0.5, 1, 1.5, 2.75, 4 (and 0, which `|| 1` replaces).
GeomHints == { 0, 128, Num(1), 384, 704, Num(4) }

\* opts.maxDpr: not given, 0.5, 1, 2.5.
GeomMaxDprOpts == { << >>, << 128 >>, << Num(1) >>, << 640 >> }

GeomLayouts == GeomSizes \X GeomSizes \X GeomHints

InitGeom ==
    \E l \in GeomLayouts :
        /\ clientWidth = l[1]
        /\ clientHeight = l[2]
        /\ devicePixelRatio = l[3]
        /\ documentHidden = FALSE
        /\ now = 0
        /\ rafPending = {}
        /\ nextRafId = 1
        /\ roPending = FALSE
        /\ phase = "idle"
        /\ params = NoParams
        /\ error = "none"
        /\ controller = {}
        /\ respectReducedMotion = TRUE
        /\ prefersReducedMotion = FALSE
        /\ shouldAnimate = TRUE
        /\ maxDpr = Num(DefaultMaxDpr)
        /\ mergedParams = defaultParams
        /\ pausedByVisibility = FALSE
        /\ visListeners = 0
        /\ roObserving = FALSE
        /\ width = Num(1)
        /\ height = Num(1)
        /\ dpr = Num(1)
        /\ canvasWidth = Num(300)
        /\ canvasHeight = Num(150)
        /\ rafId = null
        /\ startTime = 0
        /\ uniformData = NewFloat32Array
        /\ bufferDestroys = 0
        /\ ev = Quiet("init")
        /\ lastStartCall = None
        /\ lastReset = None
        /\ lastTs = None
        /\ heap = NewHeap
        /\ engines = << >>

GeomCreate == createBackground({ NoParams }, GeomMaxDprOpts, { << TRUE, FALSE >> })

GeomLayoutChange == layoutChange(GeomLayouts)

NextGeom ==
    \/ GeomCreate
    \/ adapterSettled
    \/ deviceSettled
    \/ GeomLayoutChange
    \/ resizeObserved

SpecGeom == InitGeom /\ [][NextGeom]_vars

\* C6 as stated: after configure(), for a positive pixel-ratio hint and a
\* positive maxDpr, pixelWidth >= 1, pixelHeight >= 1 and 1 <= dpr <= maxDpr.
C6_GeometryWithinMaxDpr ==
    (ev.cfgs = 1 /\ devicePixelRatio > 0 /\ maxDpr > 0) =>
        /\ width >= Num(1)
        /\ height >= Num(1)
        /\ Num(1) <= dpr
        /\ dpr <= maxDpr

\* C6 amended: after configure(), pixelWidth >= 1, pixelHeight >= 1 and
\* dpr >= 1; dpr <= maxDpr when maxDpr >= 1, and dpr = 1 when maxDpr < 1.
C6_GeometryClamped ==
    (ev.cfgs = 1 /\ devicePixelRatio > 0 /\ maxDpr > 0) =>
        /\ width >= Num(1)
        /\ height >= Num(1)
        /\ Num(1) <= dpr
        /\ (maxDpr >= Num(1) => dpr <= maxDpr)
        /\ (maxDpr < Num(1) => dpr = Num(1))

\* configure() has run on a layout of size 0 with a pixel ratio below 1 and a
\* maxDpr above 1.
C6_Witness ==
    /\ ev.cfgs = 1
    /\ clientWidth = 0
    /\ clientHeight = 0
    /\ devicePixelRatio = 128
    /\ maxDpr = 640

\* The hint as configure() clamps it.
ClampedHint == Max(Num(1), Min(maxDpr, devicePixelRatio))

\* C7 as stated: configure() sets pixelWidth = max(1, floor(logicalWidth * dpr))
\* and pixelHeight likewise, dpr being the clamped hint, and a logical size of 0
\* gives a pixel size of 1.
C7_PixelSizeIsScaledLogicalSize ==
    (ev.cfgs = 1 /\ devicePixelRatio > 0) =>
        /\ dpr = ClampedHint
        /\ width = Max(Num(1), Floor(Mul(clientWidth, dpr)))
        /\ height = Max(Num(1), Floor(Mul(clientHeight, dpr)))
        /\ (clientWidth = 0 => width = Num(1))
        /\ (clientHeight = 0 => height = Num(1))

\* C7 amended: configure() sets pixelWidth = max(1, floor(logicalWidth * dpr))
\* for every logical width >= 1; a logical width of 0 is treated as 1 and
\* gives floor(dpr), which is 1 only when dpr < 2.  The same for the height.
C7_PixelSizeOfClampedLogicalSize ==
    (ev.cfgs = 1 /\ devicePixelRatio > 0) =>
        /\ dpr = ClampedHint
        /\ (clientWidth >= Num(1) => width = Max(Num(1), Floor(Mul(clientWidth, dpr))))
        /\ (clientHeight >= Num(1) => height = Max(Num(1), Floor(Mul(clientHeight, dpr))))
        /\ (clientWidth = 0 => width = Floor(dpr))
        /\ (clientHeight = 0 => height = Floor(dpr))

\* configure() has run on a layout of width 0 with dpr 2.75.
C7_Witness ==
    /\ ev.cfgs = 1
    /\ clientWidth = 0
    /\ clientHeight = Num(2)
    /\ dpr = 704
    /\ width = Num(2)
    /\ height = Num(5)

(***************************************************************************)
(* The controller and the live parameters.                                 *)
(***************************************************************************)

\* The params arguments of the parameter model: every record that overrides at
\* most MaxOverrideKeys of the keys, with values 0, 0.3 or 2.
MaxOverrideKeys == 2

ParamValues == { 0, 77, Num(2) }

ParamOverrides ==
    UNION { [ K -> ParamValues ] :
              K \in { S \in SUBSET KeySet : Cardinality(S) <= MaxOverrideKeys } }

ParamsCreate ==
    createBackground(ParamOverrides, { << >> }, { << TRUE, FALSE >>, << TRUE, TRUE >> })

NextParams ==
    \/ ParamsCreate
    \/ adapterSettled
    \/ deviceSettled

SpecParams == Init /\ [][NextParams]_vars

\* C8: the live parameters of a created engine have the descriptor's keys; each
\* key given in the params argument reads back the given value, each other key
\* the descriptor's default.
C8_LiveParamsAreDefaultsOverridden ==
    (phase = "ready") =>
        /\ DOMAIN mergedParams = KeySet
        /\ \A k \in KeySet :
              mergedParams[k] =
                 IF k \in DOMAIN params THEN params[k] ELSE defaultParams[k]

\* An engine created with { speed: 0.3, baseR: 0 }.
C8_Witness ==
    /\ phase = "ready"
    /\ DOMAIN params = { "speed", "baseR" }
    /\ params.speed = 77
    /\ mergedParams.speed = 77
    /\ mergedParams.baseR = 0
    /\ mergedParams.colAb = 218

\* C9 as stated: the returned controller exposes the live parameter mapping,
\* so that the page's script can edit it without a call into the engine.
C9_ControllerExposesParams ==
    (phase = "ready") => ("params" \in controller /\ ~(ev.op = "pane" /\ ev.threw))

(***************************************************************************)
(* perlinNoise1.writeUniforms over wide inputs: drawFrame is called with   *)
(* any of the times below on an engine whose geometry, live parameters and *)
(* scratch buffer are any of those below.                                  *)
(***************************************************************************)

\* Timestamps: 0, 1.0, and one that is no 32-bit float.
UniformTimes == { 0, Num(1), 2^25 + 3 }

UniformWidths == { Num(1), Num(800) }

UniformHeights == { Num(1), Num(600) }

UniformDprs == { Num(1), Num(2), 384 }

\* Parameter records: the defaults, one with twelve different values, and one
\* whose values are no 32-bit floats.
UniformParams ==
    { defaultParams,
      [ baseR |-> 1, baseG |-> 2, baseB |-> 3, colAr |-> 4, colAg |-> 5,
        colAb |-> 6, colBr |-> 7, colBg |-> 8, colBb |-> 9, speed |-> 10,
        _pad0 |-> 11, _pad1 |-> 12 ],
      [ k \in KeySet |-> IF k = "speed" THEN 2^24 + 1 ELSE 2^24 + 3 ] }

\* Scratch buffers: fresh, and those left with s + i at every index i, for s
\* in 1..MaxStale.
MaxStale == 1

UniformBuffers ==
    { NewFloat32Array } \cup { [ i \in BufIndex |-> s + i ] : s \in 1..MaxStale }

InitUniforms ==
    /\ uniformData \in UniformBuffers
    /\ width \in UniformWidths
    /\ height \in UniformHeights
    /\ dpr \in UniformDprs
    /\ mergedParams \in UniformParams
    /\ canvasWidth = width
    /\ canvasHeight = height
    /\ documentHidden = FALSE
    /\ devicePixelRatio = Num(1)
    /\ clientWidth = Num(1)
    /\ clientHeight = Num(1)
    /\ now = 0
    /\ rafPending = {}
    /\ nextRafId = 1
    /\ roPending = FALSE
    /\ phase = "ready"
    /\ params = NoParams
    /\ error = "none"
    /\ controller = Controller
    /\ respectReducedMotion = TRUE
    /\ prefersReducedMotion = FALSE
    /\ shouldAnimate = TRUE
    /\ maxDpr = Num(DefaultMaxDpr)
    /\ pausedByVisibility = FALSE
    /\ visListeners = 1
    /\ roObserving = TRUE
    /\ rafId = null
    /\ startTime = 0
    /\ bufferDestroys = 0
    /\ ev = Quiet("init")
    /\ lastStartCall = None
    /\ lastReset = None
    /\ lastTs = None
    /\ heap = NewHeap
    /\ engines = << >>

\* drawFrame(timeSeconds) up to its writeUniforms call: lines 103-105.
UniformsDraw ==
    /\ \E t \in UniformTimes :
          /\ drawFrame(t, width, height, dpr)
          /\ ev' = [ Quiet("draw") EXCEPT !.draws = << t >> ]
    /\ UNCHANGED << env, created, pausedByVisibility, visListeners, roObserving,
                    geometry, rafId, startTime, bufferDestroys, lastStartCall,
                    lastReset, lastTs >>
    /\ UNCHANGED objects

NextUniforms == UniformsDraw

SpecUniforms == InitUniforms /\ [][NextUniforms]_vars

\* C10: writeUniforms stores time, width, height, dpr at indices 0-3 and the ten
\* named parameters at indices 4-13 in declared order, each as a 32-bit float,
\* and leaves indices 14-15 and the parameter record as they were.
C10_UniformLayout ==
    [][ ev'.op = "draw" =>
          /\ uniformData'[0] = ToFloat32(ev'.draws[1])
          /\ uniformData'[1] = ToFloat32(width)
          /\ uniformData'[2] = ToFloat32(height)
          /\ uniformData'[3] = ToFloat32(dpr)
          /\ \A i \in 1..10 :
                uniformData'[3 + i] = ToFloat32(mergedParams[ParamKeys[i]])
          /\ uniformData'[14] = uniformData[14]
          /\ uniformData'[15] = uniformData[15]
          /\ mergedParams' = mergedParams ]_vars

\* writeUniforms has run at time 1.0, width 800, height 600, dpr 2 on a buffer
\* that held other values, with a speed that is rounded to a 32-bit float.
C10_Witness ==
    /\ ev.op = "draw"
    /\ ev.draws = << Num(1) >>
    /\ uniformData[0] = Num(1)
    /\ uniformData[1] = Num(800)
    /\ uniformData[2] = Num(600)
    /\ uniformData[3] = Num(2)
    /\ mergedParams.speed = 2^24 + 1
    /\ uniformData[13] = 2^24
    /\ uniformData[14] # 0

(***************************************************************************)
(* Failed initialization, teardown, geometry at render time and render     *)
(* faults, over the engine's lifetime (Spec).                              *)
(***************************************************************************)

InitErrors ==
    { "WebGPU not supported", "No WebGPU adapter",
      "Could not get WebGPU canvas context" }

\* C11: createBackground fails with its first error when the host has no GPU
\* API, with its second when requestAdapter yields nothing and with its third
\* when the canvas gives no context; a failed call returns no controller, is
\* not retried, and no frame is rendered or scheduled then or later.
C11_InitFailures ==
    /\ [] /\ (ev.missing = "gpu") =>
                (phase = "failed" /\ error = "WebGPU not supported")
          /\ (ev.missing = "adapter") =>
                (phase = "failed" /\ error = "No WebGPU adapter")
          /\ (ev.missing = "context") =>
                (phase = "failed" /\ error = "Could not get WebGPU canvas context")
          /\ (phase = "failed") =>
                /\ error \in InitErrors
                /\ controller = {}
                /\ rafPending = {}
                /\ ev.draws = << >>
                /\ ev.submits = 0
                /\ ev.sched = 0
          /\ (phase = "ready") => error = "none"
    /\ [][ phase = "failed" => (phase' = "failed" /\ error' = error) ]_vars

\* requestAdapter has yielded nothing, and the document was hidden afterwards.
C11_Witness ==
    /\ phase = "failed"
    /\ error = "No WebGPU adapter"
    /\ documentHidden

\* C12: destroy() leaves no frame callback pending, no observer registered and
\* releases the uniform buffer; afterwards, as long as start() is not called,
\* no step renders, configures, schedules or changes the pause flag.
C12_DestroyTearsDown ==
    /\ [] ((ev.op = "destroy") =>
              /\ rafPending = {}
              /\ rafId = null
              /\ ~roObserving
              /\ ~roPending
              /\ visListeners = 0)
    /\ [][ (ev'.op = "destroy") => bufferDestroys' = bufferDestroys + 1 ]_vars
    /\ [][ (bufferDestroys >= 1 /\ rafPending = {} /\ ev'.op # "start") =>
              /\ ev'.draws = << >>
              /\ ev'.submits = 0
              /\ ev'.cfgs = 0
              /\ ev'.sched = 0
              /\ rafPending' = {}
              /\ geometry' = geometry
              /\ uniformData' = uniformData
              /\ pausedByVisibility' = pausedByVisibility ]_vars

\* After destroy() of an engine that had rendered, the layout has changed and
\* the document has been hidden, and the engine has followed neither.
C12_Witness ==
    /\ bufferDestroys = 1
    /\ ev.op = "host"
    /\ lastTs # None
    /\ documentHidden
    /\ ~pausedByVisibility
    /\ clientWidth = 0
    /\ width = Num(3)

\* C13 as stated: the uniform buffer is released at most once, however often
\* destroy() is called.
C13_BufferReleasedAtMostOnce == bufferDestroys <= 1

\* C14: every render writes to the uniforms the width, height and dpr that the
\* latest configure() produced, which are the canvas's pixel dimensions; the
\* geometry changes in configure() only, so never within a frame callback, and
\* a delivered resize notification runs configure() at once.
C14_RenderUsesConfiguredGeometry ==
    /\ [] ((ev.draws # << >>) =>
              /\ uniformData[1] = ToFloat32(width)
              /\ uniformData[2] = ToFloat32(height)
              /\ uniformData[3] = ToFloat32(dpr)
              /\ canvasWidth = width
              /\ canvasHeight = height)
    /\ [][ (ev'.cfgs = 0 \/ ev'.op = "tick") => geometry' = geometry ]_vars
    /\ [][ (roPending /\ ~roPending' /\ ev'.op = "host") =>
              /\ ev'.cfgs = 1
              /\ dpr' = ClampDpr(maxDpr, devicePixelRatio)
              /\ width' = PixelSize(clientWidth, dpr')
              /\ height' = PixelSize(clientHeight, dpr') ]_vars

\* A frame callback has rendered after a resize to 0 x 2 was applied.
C14_Witness ==
    /\ ev.op = "tick"
    /\ ev.submits = 1
    /\ clientWidth = 0
    /\ clientHeight = Num(2)
    /\ uniformData[1] = Num(1)
    /\ uniformData[2] = Num(2)

\* C15 as stated: at every rendered frame the geometry is what configure()
\* computes from the current logical size and pixel-ratio hint.
C15_GeometryCurrentAtEveryFrame ==
    (ev.submits = 1) =>
        /\ dpr = ClampDpr(maxDpr, devicePixelRatio)
        /\ width = PixelSize(clientWidth, dpr)
        /\ height = PixelSize(clientHeight, dpr)

\* C16: a frame callback whose render throws submits nothing and schedules no
\* successor, so that no callback is pending, the loop handle it leaves is
\* stale, and no frame is rendered until a start() call schedules again.
C16_FaultAbandonsTick ==
    /\ [] ((ev.op = "tick" /\ ev.threw) =>
              /\ ev.submits = 0
              /\ ev.sched = 0
              /\ rafPending = {}
              /\ rafId # null)
    /\ [][ (ev'.op = "tick" /\ ev'.threw) =>
              (rafId' = rafId /\ lastTs' = lastTs) ]_vars
    /\ [][ (rafPending = {} /\ ev'.op # "start") =>
              (ev'.submits = 0 /\ ev'.draws = << >> /\ rafPending' = {}) ]_vars

\* A frame callback has thrown after an earlier one had rendered.
C16_Witness ==
    /\ ev.op = "tick"
    /\ ev.threw
    /\ lastTs # None
    /\ rafPending = {}

\* C17 as stated: the loop handle is non-null exactly when a frame callback is
\* pending.
C17_HandleIffPending ==
    (phase = "ready" /\ bufferDestroys = 0) =>
        ((rafId # null) <=> (rafPending # {}))

\* C18 as stated: after a failed createBackground no observer that the call
\* registered is still registered.
C18_NoObserverAfterFailedInit ==
    (phase = "failed") => (visListeners = 0 /\ ~roObserving)

\* C19 as stated: no frame is submitted while the document is hidden.
C19_NoSubmitWhileHidden ==
    (bufferDestroys = 0 /\ documentHidden) => ev.submits = 0

\* C19 amended: before destroy(), the pause flag equals document.hidden and no
\* frame callback renders or submits while the document is hidden, and a
\* start() call in animation-enabled mode renders nothing; a start() call in
\* reduced-motion mode renders and submits its frame whether or not the
\* document is hidden.
C19_NoLoopFrameWhileHidden ==
    (phase = "ready" /\ bufferDestroys = 0) =>
        /\ pausedByVisibility = documentHidden
        /\ (documentHidden /\ ev.op # "start") =>
              (ev.draws = << >> /\ ev.submits = 0)
        /\ (ev.op = "start" /\ shouldAnimate) =>
              (ev.draws = << >> /\ ev.submits = 0)
        /\ (ev.op = "start" /\ ~shouldAnimate) =>
              (ev.draws = << 0 >> /\ ev.submits = (IF ev.threw THEN 0 ELSE 1))

\* A frame callback has fired on an engine that was created while the document
\* was hidden and has rendered no frame yet.
C19_Witness ==
    /\ bufferDestroys = 0
    /\ shouldAnimate
    /\ documentHidden
    /\ ev.op = "tick"
    /\ ev.sched = 1
    /\ lastTs = None
    /\ uniformData = NewFloat32Array

(***************************************************************************)
(* Several engines of one descriptor.  Parameter records are objects: heap *)
(* maps the reference of each object to its contents.  createBackground    *)
(* reads descriptor.defaultParams (DescriptorRef) and builds the engine's  *)
(* live params; a holder of a live params object writes to it in place.    *)
(***************************************************************************)

\* createBackground is called at most MaxEngines times.
MaxEngines == 2

EngineOverrides == { NoParams, [ speed |-> 77 ], [ baseR |-> 0, speed |-> 77 ] }

EngineEdits == { << "speed", Num(2) >>, << "speed", 0 >>, << "baseR", Num(2) >> }

\* Mutant: the overrides are merged into the descriptor's own object, as
\* Object.assign(descriptor.defaultParams, params) does.
mergeIntoDefaults(fresh) == DescriptorRef

\* { ...descriptor.defaultParams, ...params }: an object literal is a new
\* object; the reference of the object that receives the merged keys.
mergeTarget(fresh) == fresh

\* createBackground, lines 25-26, for one more engine.
EnginesCreate ==
    /\ Len(engines) < MaxEngines
    /\ \E overrides \in EngineOverrides :
          LET fresh  == Cardinality(DOMAIN heap) + 1
              target == mergeTarget(fresh)
          IN  /\ heap' = [ r \in (DOMAIN heap) \cup { target } |->
                             IF r = target
                               THEN Spread(heap[DescriptorRef], overrides)
                               ELSE heap[r] ]
              /\ engines' = Append(engines, target)
              /\ params' = overrides
              /\ mergedParams' = heap'[target]
    /\ ev' = Quiet("host")
    /\ UNCHANGED << env, phase, error, controller, respectReducedMotion,
                    prefersReducedMotion, shouldAnimate, maxDpr,
                    pausedByVisibility, visListeners, roObserving, geometry,
                    rafId, startTime, uniformData, bufferDestroys,
                    lastStartCall, lastReset, lastTs >>

\* A control bound to the live params of engine e by pane.addBinding(params,
\* key, opts) writes params[key] in place.
EnginesEdit ==
    /\ \E e \in 1..Len(engines), edit \in EngineEdits :
          heap' = [ heap EXCEPT ![engines[e]][edit[1]] = edit[2] ]
    /\ ev' = Quiet("pane")
    /\ UNCHANGED << env, created, pausedByVisibility, visListeners, roObserving,
                    geometry, rafId, startTime, uniformData, bufferDestroys,
                    lastStartCall, lastReset, lastTs, engines >>

NextEngines ==
    \/ EnginesCreate
    \/ EnginesEdit

SpecEngines == Init /\ [][NextEngines]_vars

\* C20: descriptor.defaultParams keeps its original contents whatever engines
\* are created and whatever is written to their live params; every engine gets
\* live params of its own, which start as the original defaults overridden by
\* that call's overrides; creating an engine changes no other object, and a
\* write to one engine's live params changes no other object.
C20_DefaultsAndEnginesIndependent ==
    /\ [] /\ heap[DescriptorRef] = defaultParams
          /\ \A i \in 1..Len(engines) :
                /\ engines[i] # DescriptorRef
                /\ \A j \in 1..Len(engines) : (i # j) => (engines[i] # engines[j])
    /\ [][ (Len(engines') > Len(engines)) =>
              /\ heap'[engines'[Len(engines')]] = Spread(defaultParams, params')
              /\ \A r \in DOMAIN heap : heap'[r] = heap[r] ]_vars
    /\ [][ (ev'.op = "pane") =>
              \E e \in 1..Len(engines) :
                 \A r \in DOMAIN heap : (r # engines[e]) => (heap'[r] = heap[r]) ]_vars

\* A first engine was created with { baseR: 0, speed: 0.3 } and its speed was
\* then set to 2; a second engine, created without overrides, has the defaults.
C20_Witness ==
    /\ Len(engines) = 2
    /\ heap[engines[1]].baseR = 0
    /\ heap[engines[1]].speed = Num(2)
    /\ params = NoParams
    /\ heap[engines[2]] = defaultParams
    /\ heap[DescriptorRef] = defaultParams

=============================================================================
